---- MODULE Spec2Model ----
(***************************************************************************)
(* Model of the REST request helpers of src/app.py:                        *)
(*   send_generation_request        (lines 43-68,   "sync")                *)
(*   send_async_generation_request  (lines 70-110,  "async")               *)
(*   generate_image_to_video        (lines 344-405, "video")               *)
(* One call of one helper is followed from its POST to its outcome.  The   *)
(* wall clock `now` is in whole seconds; it advances while an HTTP request *)
(* is in flight (by a latency the network chooses) and while the caller    *)
(* sleeps (by PollInterval).                                               *)
(***************************************************************************)
EXTENDS Integers, Sequences, FiniteSets, TLC

VARIABLES
    fn,             \* which helper is running: "none", "sync", "async", "video"
    pc,             \* position of the call
    now,            \* time.time(), in seconds
    WORKER_TIMEOUT, \* the environment variable read at line 96
    response,       \* the POST's response (lines 65, 89, 359)
    generation_id,  \* lines 93, 369
    timeout,        \* line 96
    start,          \* line 97
    poll_response,  \* the last GET's response (lines 99, 382)
    posts,          \* number of POSTs issued by the call
    gets,           \* number of GETs issued by the call
    sleeps,         \* number of time.sleep(10) calls completed
    sent_at,        \* clock value when the last GET was issued
    flight,         \* seconds the last GET spent in flight
    get_total,      \* seconds spent in all the GETs of the call
    err,            \* the exception raised / the error reported
    result,         \* the response handed back to the caller
    post_flight,    \* seconds the POST spent in flight
    slept,          \* sleeps completed since the last GET was issued
    sent,           \* the requests the call has issued (method and URL)
    in_files,       \* the caller's `files` argument (lines 43, 70)
    image,          \* params.pop("image", None) (lines 50, 77)
    mask,           \* params.pop("mask", None) (lines 51, 78)
    files,          \* the multipart parts passed to requests.post
    session_state,  \* st.session_state: the keys that are set, and their values
    listdir,        \* the media files in IMAGE_DIR
    filename,       \* what the generate_* function of the last run returned
    rendered,       \* how the last run of main() ended
    runs,           \* number of generations the session has finished
    calls,          \* the locals of each concurrent call of the async helper
    clock,          \* the wall clock the concurrent calls share
    disk,           \* the files of the working directory, by name
    ups             \* the locals of each session's image-editing call

vars == <<fn, pc, now, WORKER_TIMEOUT, response, generation_id, timeout, start,
          poll_response, posts, gets, sleeps, sent_at, flight, get_total, err,
          result, post_flight, slept, sent, in_files, image, mask, files,
          session_state, listdir, filename, rendered, runs, calls, clock,
          disk, ups>>

cvars == <<calls, clock>>

uvars == <<disk, ups>>

svars == <<session_state, listdir, filename, rendered, runs>>

----------------------------------------------------------------------------
(* Bounds and program constants *)

MaxTimeout == 25
MaxLatency == 2

PollInterval == 10
IdLength == 64
DefaultTimeout == 500

\* The counters of the model saturate: a send_async_generation_request call
\* ends before its clock reaches MaxClock or a counter reaches MaxCount, the
\* unbounded loop of generate_image_to_video reaches both and stays there.
MaxClock == MaxTimeout + PollInterval + 2 * MaxLatency + 1
MaxCount == (MaxTimeout \div PollInterval) + 2

Min(a, b) == IF a < b THEN a ELSE b
Tick(t, d) == Min(t + d, MaxClock)
Count(n) == Min(n + 1, MaxCount)

Latencies == 0 .. MaxLatency
\* int(os.getenv("WORKER_TIMEOUT", 500)): the integer budgets the model tries
Timeouts == 0 .. MaxTimeout

----------------------------------------------------------------------------
(* Values exchanged with the server *)

Id64 == "0123456789abcdef0123456789abcdef0123456789abcdef0123456789abcdef"

None == [type |-> "NoneType", s |-> ""]
Str(s) == [type |-> "str", s |-> s]

\* Response bodies the server may send to the POST.
NotJsonText == "<html>Bad Gateway</html>"
NoIdText == "{\"name\": \"x\"}"
NullIdText == "{\"id\": null}"
EmptyIdText == "{\"id\": \"\"}"
ShortIdText == "{\"id\": \"abc\"}"
LongIdText == "{\"id\": \"<64 hex digits>\"}"

Texts == {NotJsonText, NoIdText, NullIdText, EmptyIdText, ShortIdText, LongIdText}

PostStatuses == {200, 400, 500}
PollStatuses == {200, 201, 202, 204, 304, 404, 500}

Response(status_code, text) == [status_code |-> status_code, text |-> text]
NoResponse == Response(0, "")

\* requests.Response.ok: the status code is below 400.
ok(r) == r.status_code < 400

\* response.json(): raises for a body that is not JSON.
JsonRaises(r) == r.text = NotJsonText

json(r) ==
    CASE r.text = NoIdText -> [name |-> Str("x")]
      [] r.text = NullIdText -> [id |-> None]
      [] r.text = EmptyIdText -> [id |-> Str("")]
      [] r.text = ShortIdText -> [id |-> Str("abc")]
      [] r.text = LongIdText -> [id |-> Str(Id64)]

\* dict.get(key, default)
get(d, key, default) == IF key \in DOMAIN d THEN d[key] ELSE default

\* Python truthiness of an id value, and len().
truthy(v) == v.type = "str" /\ v.s # ""
len(v) == Len(v.s)

----------------------------------------------------------------------------
(* Multipart parts: a dict is the set of its (name, value) pairs *)

File(s) == [type |-> "file", s |-> s]
NoFiles == [type |-> "NoneType", parts |-> {}]
Dict(parts) == [type |-> "dict", parts |-> parts]

\* d[k] = v
setitem(d, k, v) == {p \in d : p[1] # k} \cup {<<k, v>>}

\* the values a caller passes as image or mask, and as files
ImageArgs == {None, Str(""), Str("temp_upload_0.png"), File("upload")}
FilesArgs ==
    {NoFiles, Dict({}),
     Dict({<<"subject_image", File("temp_subject_0.png")>>}),
     Dict({<<"subject_image", File("temp_subject_0.png")>>,
           <<"background_reference", File("temp_bg_0.png")>>})}

\* lines 48-49, 75-76: if files is None: files = {}
files_or_empty(f) == IF f.type = "NoneType" THEN {} ELSE f.parts

\* lines 52, 57, 79, 84: x is not None and x != ""
supplied(x) == x # None /\ x # Str("")

\* Mutant: the placeholder part is never added.
placeholder_Never(parts) == parts

\* lines 62-63, 86-87: if len(files) == 0: files["none"] = ""
placeholder(parts) ==
    IF Cardinality(parts) = 0 THEN setitem(parts, "none", Str("")) ELSE parts

\* lines 52-61: a path is opened, a file object is passed on
sync_part(x) == IF x.type = "str" THEN File(x.s) ELSE x

\* lines 48-63 of send_generation_request
sync_files(f, img, msk) ==
    LET f0 == files_or_empty(f)
        f1 == IF supplied(img) THEN setitem(f0, "image", sync_part(img)) ELSE f0
        f2 == IF supplied(msk) THEN setitem(f1, "mask", sync_part(msk)) ELSE f1
    IN placeholder(f2)

\* lines 75-87 of send_async_generation_request
async_files(f, img, msk) ==
    LET f0 == files_or_empty(f)
        f1 == IF supplied(img) THEN setitem(f0, "image", img) ELSE f0
        f2 == IF supplied(msk) THEN setitem(f1, "mask", msk) ELSE f1
    IN placeholder(f2)

\* line 362 of generate_image_to_video
video_files == {<<"image", File("img_buffer")>>}

----------------------------------------------------------------------------
(* Session state and media files *)

MaxRuns == 2

\* a file of IMAGE_DIR; generated names are unique by their timestamp
Media(kind, n) == [kind |-> kind, n |-> n]
NoMedia == Media("None", 0)

\* st.session_state before any key is set
NoKeys == [k \in {} |-> NoMedia]

\* st.session_state.key = value
setattr(ss, key, value) == (key :> value) @@ ss

\* lines 523-538: the containers are created when they do not exist
init_session(ss, dir) ==
    LET s1 == IF "recent_images" \notin DOMAIN ss
              THEN setattr(ss, "recent_images", dir.images) ELSE ss
        s2 == IF "recent_videos" \notin DOMAIN s1
              THEN setattr(s1, "recent_videos", dir.videos) ELSE s1
    IN IF "selected_video" \notin DOMAIN s2
       THEN setattr(s2, "selected_video", NoMedia) ELSE s2

\* what the generate_* functions save their result as
kind_of(f) == IF f = "video" THEN "video" ELSE "image"

\* lines 125-137, 302-316, 350-405: the file name when the helper came back
\* and the file was written, None when anything raised
generate(f, outcome, written, n) ==
    IF outcome = "returned" /\ written THEN Media(kind_of(f), n) ELSE NoMedia

\* Mutant: the test `if filename:` is missing.
on_generated_NoTest(ss, f, name) ==
    IF f = "video"
    THEN setattr(setattr(ss, "generated_video", name),
                 "recent_videos", Append(ss.recent_videos, name))
    ELSE setattr(setattr(ss, "generated_image", name),
                 "recent_images", Append(ss.recent_images, name))

\* lines 587-589 (and the same for every image task), lines 734-736
on_generated(ss, f, name) ==
    IF name = NoMedia THEN ss
    ELSE IF f = "video"
    THEN setattr(setattr(ss, "generated_video", name),
                 "recent_videos", Append(ss.recent_videos, name))
    ELSE setattr(setattr(ss, "generated_image", name),
                 "recent_images", Append(ss.recent_images, name))

\* lines 769-775: every recent video is shown with
\* st.session_state.generated_image, which raises when the key is not set
render(ss) ==
    IF ss.recent_videos # <<>> /\ "generated_image" \notin DOMAIN ss
    THEN "AttributeError" ELSE "ok"

----------------------------------------------------------------------------
(* Errors *)

NoError == [kind |-> "none", args |-> <<>>]
Error(kind, args) == [kind |-> kind, args |-> args]

\* raise Exception(f"HTTP {response.status_code}: {response.text}")
HTTPError(r) == Error("HTTP", <<r.status_code, r.text>>)
\* raise Exception(f"Timeout after {timeout} seconds")
TimeoutError(t) == Error("Timeout", <<t>>)

Terminal == pc \in {"returned", "failed"}

\* Two browser sessions run main() in one process and one working directory.
Sessions == {1, 2}

\* the working directory holds no temporary file yet
NoDisk == [name \in {} |-> ""]

IdleUpload ==
    [pc |-> "idle", fn |-> "none", seed |-> 0, image_bytes |-> "",
     temp_filename |-> <<"", 0>>, posted |-> ""]

\* Two sessions call send_async_generation_request in the same process; each
\* call has its own locals (lines 71-110).
Calls == {1, 2}

IdleCall ==
    [pc |-> "idle", due |-> 0, began |-> 0, job |-> None,
     generation_id |-> None, timeout |-> 0, start |-> 0,
     poll_response |-> NoResponse, gets |-> 0, sleeps |-> 0, get_total |-> 0,
     targets |-> {}, err |-> NoError, result |-> NoResponse]

----------------------------------------------------------------------------
(* Requests *)

Request(method, url) == [method |-> method, url |-> url]

\* the `host` each helper posts to (lines 65, 89, 349)
host(f) ==
    IF f = "video" THEN "https://api.stability.ai/v2beta/image-to-video"
    ELSE "https://api.stability.ai/v2beta/stable-image/"

\* Mutant: the status URL is built without the job's identifier.
result_url_NoId(f, id) ==
    IF f = "video"
    THEN <<"https://api.stability.ai/v2beta/image-to-video/result/", None>>
    ELSE <<"https://api.stability.ai/v2beta/results/", None>>

\* the status URL of a job (lines 100, 380): a prefix and the identifier
result_url(f, id) ==
    IF f = "video"
    THEN <<"https://api.stability.ai/v2beta/image-to-video/result/", id>>
    ELSE <<"https://api.stability.ai/v2beta/results/", id>>

----------------------------------------------------------------------------
CallInit ==
    /\ fn = "none"
    /\ pc = "idle"
    /\ now = 0
    /\ WORKER_TIMEOUT \in Timeouts
    /\ response = NoResponse
    /\ generation_id = None
    /\ timeout = 0
    /\ start = 0
    /\ poll_response = NoResponse
    /\ posts = 0
    /\ gets = 0
    /\ sleeps = 0
    /\ sent_at = 0
    /\ flight = 0
    /\ get_total = 0
    /\ err = NoError
    /\ result = NoResponse
    /\ post_flight = 0
    /\ slept = 0
    /\ sent = {}
    /\ files = {}
    /\ calls = [c \in Calls |-> IdleCall]
    /\ clock = 0
    /\ disk = NoDisk
    /\ ups = [u \in Sessions |-> IdleUpload]

\* A call without attachments (generate_marketing_ad_stability, line 126),
\* looked at on its own: no page has been rendered.
Init ==
    /\ CallInit
    /\ in_files = NoFiles
    /\ image = None
    /\ mask = None
    /\ session_state = NoKeys
    /\ listdir = [images |-> <<>>, videos |-> <<>>]
    /\ filename = NoMedia
    /\ rendered = "none"
    /\ runs = 0

\* The helper is called and issues its POST (lines 65, 89, 359).
Call(f) ==
    /\ pc = "idle"
    /\ fn' = f
    /\ pc' = "posting"
    /\ posts' = posts + 1
    /\ UNCHANGED <<now, WORKER_TIMEOUT, response, generation_id, timeout, start,
                   poll_response, gets, sleeps, sent_at, flight, get_total, err,
                   result>>
    /\ sent' = sent \cup {Request("POST", <<host(f), None>>)}
    /\ UNCHANGED <<post_flight, slept>>
    /\ files' = IF f = "sync" THEN sync_files(in_files, image, mask)
                ELSE IF f = "async" THEN async_files(in_files, image, mask)
                ELSE video_files
    /\ UNCHANGED <<in_files, image, mask>>
    /\ UNCHANGED svars
    /\ UNCHANGED cvars
    /\ UNCHANGED uvars

----------------------------------------------------------------------------
(* send_generation_request, lines 65-68 *)

SyncPostReturns(status_code, text, latency) ==
    /\ pc = "posting" /\ fn = "sync"
    /\ LET r == Response(status_code, text) IN
        /\ response' = r
        /\ now' = Tick(now, latency)
        /\ IF ~ok(r)
           THEN pc' = "failed" /\ err' = HTTPError(r) /\ result' = result
           ELSE pc' = "returned" /\ err' = err /\ result' = r
    /\ UNCHANGED <<fn, WORKER_TIMEOUT, generation_id, timeout, start,
                   poll_response, posts, gets, sleeps, sent_at, flight,
                   get_total>>
    /\ post_flight' = latency
    /\ UNCHANGED <<slept, sent>>
    /\ UNCHANGED <<in_files, image, mask, files>>
    /\ UNCHANGED svars
    /\ UNCHANGED cvars
    /\ UNCHANGED uvars

----------------------------------------------------------------------------
(* send_async_generation_request, lines 89-110 *)

\* Mutant: the check of line 94 is missing.
AsyncIdMissing_Never(id) == FALSE

\* line 94: if generation_id is None
AsyncIdMissing(id) == id = None

\* lines 90-95: the exception the submission step raises, if any
AsyncSubmitError(r) ==
    IF ~ok(r) THEN HTTPError(r)
    ELSE IF JsonRaises(r) THEN Error("JSONDecodeError", <<>>)
    ELSE IF AsyncIdMissing(get(json(r), "id", None))
         THEN Error("ExpectedId", <<"Expected id in async response">>)
    ELSE NoError

\* Mutant: a 5xx answer is retried after the sleep.
AsyncAfterGet_Retry5xx(r) ==
    IF r.status_code >= 500 THEN "sleep"
    ELSE IF ~ok(r) THEN "failed"
    ELSE IF r.status_code # 202 THEN "returned"
    ELSE "sleep"

\* Mutant: the loop is left on 200 only, every other success status waits.
AsyncAfterGet_BreakOn200(r) ==
    IF ~ok(r) THEN "failed"
    ELSE IF r.status_code = 200 THEN "returned"
    ELSE "sleep"

\* lines 103-107: where the loop goes after a GET has answered
AsyncAfterGet(r) ==
    IF ~ok(r) THEN "failed"
    ELSE IF r.status_code # 202 THEN "returned"
    ELSE "sleep"

\* Mutant: the budget is extended by one poll interval.
TimedOut_Late(elapsed, t) == elapsed > t + PollInterval

\* Mutant: the call gives up as soon as the budget is reached.
TimedOut_AtBoundary(elapsed, t) == elapsed >= t

\* line 108: time.time() - start > timeout
TimedOut(elapsed, t) == elapsed > t

\* Mutant: the clock is started before the POST is issued.
poll_start_AtCall(called, t) == called

\* line 97: start = time.time(), read after the POST has answered
poll_start(called, t) == t

AsyncPostReturns(status_code, text, latency) ==
    /\ pc = "posting" /\ fn = "async"
    /\ LET r == Response(status_code, text)
           e == AsyncSubmitError(r)
       IN
        /\ response' = r
        /\ now' = Tick(now, latency)
        /\ IF e.kind # "none"
           THEN /\ pc' = "failed"
                /\ err' = e
                /\ UNCHANGED <<generation_id, timeout, start>>
           ELSE /\ generation_id' = get(json(r), "id", None)
                /\ timeout' = WORKER_TIMEOUT
                /\ start' = poll_start(now, now')
                /\ pc' = "poll"
                /\ err' = err
    /\ UNCHANGED <<fn, WORKER_TIMEOUT, poll_response, posts, gets, sleeps,
                   sent_at, flight, get_total, result>>
    /\ post_flight' = latency
    /\ UNCHANGED <<slept, sent>>
    /\ UNCHANGED <<in_files, image, mask, files>>
    /\ UNCHANGED svars
    /\ UNCHANGED cvars
    /\ UNCHANGED uvars

\* lines 99-106: the GET has answered
AsyncGetReturns(status_code, latency) ==
    /\ pc = "inflight" /\ fn = "async"
    /\ LET r == Response(status_code, "")
           next == AsyncAfterGet(r)
       IN
        /\ poll_response' = r
        /\ pc' = next
        /\ err' = IF next = "failed" THEN HTTPError(r) ELSE err
        /\ result' = IF next = "returned" THEN r ELSE result
    /\ now' = Tick(now, latency)
    /\ flight' = latency
    /\ get_total' = Tick(get_total, latency)
    /\ UNCHANGED <<fn, WORKER_TIMEOUT, response, generation_id, timeout, start,
                   posts, gets, sleeps, sent_at>>
    /\ UNCHANGED <<post_flight, slept, sent>>
    /\ UNCHANGED <<in_files, image, mask, files>>
    /\ UNCHANGED svars
    /\ UNCHANGED cvars
    /\ UNCHANGED uvars

\* lines 107-109: time.sleep(10), then the timeout check
AsyncSleep ==
    /\ pc = "sleep" /\ fn = "async"
    /\ now' = Tick(now, PollInterval)
    /\ sleeps' = Count(sleeps)
    /\ IF TimedOut(now' - start, timeout)
       THEN pc' = "failed" /\ err' = TimeoutError(timeout)
       ELSE pc' = "poll" /\ err' = err
    /\ UNCHANGED <<fn, WORKER_TIMEOUT, response, generation_id, timeout, start,
                   poll_response, posts, gets, sent_at, flight, get_total,
                   result>>
    /\ slept' = Count(slept)
    /\ UNCHANGED <<post_flight, sent>>
    /\ UNCHANGED <<in_files, image, mask, files>>
    /\ UNCHANGED svars
    /\ UNCHANGED cvars
    /\ UNCHANGED uvars

----------------------------------------------------------------------------
(* generate_image_to_video, lines 359-405 *)

\* line 370: if not generation_id
VideoIdMissing(id) == ~truthy(id)

\* Mutant: the length check of line 375 is missing.
VideoSubmitError_NoLengthCheck(r) ==
    IF JsonRaises(r) THEN Error("VideoGenerationError", <<"JSONDecodeError">>)
    ELSE IF VideoIdMissing(get(json(r), "id", None))
         THEN Error("NoGenerationId", <<>>)
    ELSE NoError

\* lines 369-377: the error the submission step reports, if any; every
\* exception is caught at line 403 and reported, and None is returned
VideoSubmitError(r) ==
    IF JsonRaises(r) THEN Error("VideoGenerationError", <<"JSONDecodeError">>)
    ELSE IF VideoIdMissing(get(json(r), "id", None))
         THEN Error("NoGenerationId", <<>>)
    ELSE IF len(get(json(r), "id", None)) # IdLength
         THEN Error("IdLength", <<len(get(json(r), "id", None))>>)
    ELSE NoError

\* Mutant: a 202 answer is followed by the next GET without a sleep.
VideoAfterGet_NoSleep(r) ==
    IF r.status_code = 202 THEN "poll"
    ELSE IF r.status_code = 200 THEN "returned"
    ELSE "failed"

\* Mutant: a 200 answer is treated like a 202 one.
VideoAfterGet_KeepPolling(r) ==
    IF r.status_code \in {200, 202} THEN "sleep"
    ELSE "failed"

\* lines 389-396: where the loop goes after a GET has answered
VideoAfterGet(r) ==
    IF r.status_code = 202 THEN "sleep"
    ELSE IF r.status_code = 200 THEN "returned"
    ELSE "failed"

VideoPostReturns(status_code, text, latency) ==
    /\ pc = "posting" /\ fn = "video"
    /\ LET r == Response(status_code, text)
           e == VideoSubmitError(r)
       IN
        /\ response' = r
        /\ now' = Tick(now, latency)
        /\ IF e.kind # "none"
           THEN /\ pc' = "failed"
                /\ err' = e
                /\ UNCHANGED generation_id
           ELSE /\ generation_id' = get(json(r), "id", None)
                /\ pc' = "poll"
                /\ err' = err
    /\ UNCHANGED <<fn, WORKER_TIMEOUT, timeout, start, poll_response, posts,
                   gets, sleeps, sent_at, flight, get_total, result>>
    /\ post_flight' = latency
    /\ UNCHANGED <<slept, sent>>
    /\ UNCHANGED <<in_files, image, mask, files>>
    /\ UNCHANGED svars
    /\ UNCHANGED cvars
    /\ UNCHANGED uvars

\* lines 382-396: the GET has answered
VideoGetReturns(status_code, latency) ==
    /\ pc = "inflight" /\ fn = "video"
    /\ LET r == Response(status_code, "")
           next == VideoAfterGet(r)
       IN
        /\ poll_response' = r
        /\ pc' = next
        /\ err' = IF next = "failed"
                  THEN Error("VideoGenerationError", <<r.status_code>>)
                  ELSE err
        /\ result' = IF next = "returned" THEN r ELSE result
    /\ now' = Tick(now, latency)
    /\ flight' = latency
    /\ get_total' = Tick(get_total, latency)
    /\ UNCHANGED <<fn, WORKER_TIMEOUT, response, generation_id, timeout, start,
                   posts, gets, sleeps, sent_at>>
    /\ UNCHANGED <<post_flight, slept, sent>>
    /\ UNCHANGED <<in_files, image, mask, files>>
    /\ UNCHANGED svars
    /\ UNCHANGED cvars
    /\ UNCHANGED uvars

\* line 391: time.sleep(10); the loop has no timeout check
VideoSleep ==
    /\ pc = "sleep" /\ fn = "video"
    /\ now' = Tick(now, PollInterval)
    /\ sleeps' = Count(sleeps)
    /\ pc' = "poll"
    /\ UNCHANGED <<fn, WORKER_TIMEOUT, response, generation_id, timeout, start,
                   poll_response, posts, gets, sent_at, flight, get_total, err,
                   result>>
    /\ slept' = Count(slept)
    /\ UNCHANGED <<post_flight, sent>>
    /\ UNCHANGED <<in_files, image, mask, files>>
    /\ UNCHANGED svars
    /\ UNCHANGED cvars
    /\ UNCHANGED uvars

----------------------------------------------------------------------------
(* Both polling loops *)

\* lines 99 and 382: requests.get is called for the job's result URL
SendGet ==
    /\ pc = "poll"
    /\ pc' = "inflight"
    /\ gets' = Count(gets)
    /\ sent_at' = now
    /\ UNCHANGED <<fn, now, WORKER_TIMEOUT, response, generation_id, timeout,
                   start, poll_response, posts, sleeps, flight, get_total, err,
                   result>>
    /\ sent' = sent \cup {Request("GET", result_url(fn, generation_id))}
    /\ slept' = 0
    /\ UNCHANGED post_flight
    /\ UNCHANGED <<in_files, image, mask, files>>
    /\ UNCHANGED svars
    /\ UNCHANGED cvars
    /\ UNCHANGED uvars

\* requests.post / requests.get raises (network failure): the exception
\* leaves send_*_generation_request, and is reported at line 404 in
\* generate_image_to_video
RequestRaises(latency) ==
    /\ pc \in {"posting", "inflight"}
    /\ pc' = "failed"
    /\ err' = Error("ConnectionError", <<>>)
    /\ now' = Tick(now, latency)
    /\ flight' = IF pc = "inflight" THEN latency ELSE flight
    /\ get_total' = IF pc = "inflight" THEN Tick(get_total, latency)
                    ELSE get_total
    /\ post_flight' = IF pc = "posting" THEN latency ELSE post_flight
    /\ UNCHANGED <<fn, WORKER_TIMEOUT, response, generation_id, timeout, start,
                   poll_response, posts, gets, sleeps, sent_at, result, slept,
                   sent>>
    /\ UNCHANGED <<in_files, image, mask, files>>
    /\ UNCHANGED svars
    /\ UNCHANGED cvars
    /\ UNCHANGED uvars

Next ==
    \/ \E f \in {"sync", "async", "video"} : Call(f)
    \/ \E s \in PostStatuses, t \in Texts, l \in Latencies :
          SyncPostReturns(s, t, l)
    \/ \E s \in PostStatuses, t \in Texts, l \in Latencies :
          AsyncPostReturns(s, t, l)
    \/ \E s \in PostStatuses, t \in Texts, l \in Latencies :
          VideoPostReturns(s, t, l)
    \/ SendGet
    \/ \E s \in PollStatuses, l \in Latencies : AsyncGetReturns(s, l)
    \/ AsyncSleep
    \/ \E s \in PollStatuses, l \in Latencies : VideoGetReturns(s, l)
    \/ VideoSleep
    \/ \E l \in Latencies : RequestRaises(l)

Spec == Init /\ [][Next]_vars

\* requests answers every call it is given, and the caller keeps running.
FairSpec == Spec /\ WF_vars(Next)

----------------------------------------------------------------------------
(* main(): one browser session.  Every action but the helper's steps is one
   run of the script; the run of a Generate button spans the helper's call. *)

SessionInit ==
    /\ CallInit
    /\ in_files = NoFiles
    /\ image = None
    /\ mask = None
    /\ session_state = NoKeys
    /\ listdir \in [images : {<<>>, <<Media("image", 0)>>},
                    videos : {<<>>, <<Media("video", 0)>>}]
    /\ filename = NoMedia
    /\ rendered = "none"
    /\ runs = 0

Loaded == "recent_images" \in DOMAIN session_state

call_vars == <<fn, pc, now, WORKER_TIMEOUT, response, generation_id, timeout,
               start, poll_response, posts, gets, sleeps, sent_at, flight,
               get_total, err, result, post_flight, slept, sent, in_files,
               image, mask, files>>

\* a run in which no button is pressed (the first run of a session is one):
\* lines 523-538, then the page is rendered
Load ==
    /\ pc = "idle"
    /\ session_state' = init_session(session_state, listdir)
    /\ rendered' = render(session_state')
    /\ UNCHANGED <<listdir, filename, runs>>
    /\ UNCHANGED call_vars
    /\ UNCHANGED cvars
    /\ UNCHANGED uvars

\* a Generate button is pressed: the task's generate_* function is called
Generate(f) ==
    /\ Loaded
    /\ runs < MaxRuns
    /\ Call(f)

\* the helper has come back or raised: the generate_* function returns, the
\* button's handler stores the file name, and the page is rendered
Finish(written) ==
    /\ Terminal
    /\ filename' = generate(fn, pc, written, runs + 1)
    /\ session_state' = on_generated(session_state, fn, filename')
    /\ rendered' = render(session_state')
    /\ listdir' =
          IF filename' = NoMedia THEN listdir
          ELSE IF fn = "video"
          THEN [listdir EXCEPT !.videos = Append(@, filename')]
          ELSE [listdir EXCEPT !.images = Append(@, filename')]
    /\ runs' = runs + 1
    /\ fn' = "none" /\ pc' = "idle" /\ now' = 0
    /\ response' = NoResponse /\ generation_id' = None
    /\ timeout' = 0 /\ start' = 0 /\ poll_response' = NoResponse
    /\ posts' = 0 /\ gets' = 0 /\ sleeps' = 0 /\ sent_at' = 0
    /\ flight' = 0 /\ get_total' = 0 /\ err' = NoError
    /\ result' = NoResponse /\ post_flight' = 0 /\ slept' = 0
    /\ sent' = {} /\ files' = {}
    /\ UNCHANGED <<WORKER_TIMEOUT, in_files, image, mask>>
    /\ UNCHANGED cvars
    /\ UNCHANGED uvars

\* lines 753-767: "Apply Selected Image" with exactly one image selected
ApplySelected(i) ==
    /\ pc = "idle"
    /\ Loaded
    /\ i \in 1 .. Len(session_state.recent_images)
    /\ session_state' = setattr(session_state, "generated_image",
                                session_state.recent_images[i])
    /\ rendered' = render(session_state')
    /\ UNCHANGED <<listdir, filename, runs>>
    /\ UNCHANGED call_vars
    /\ UNCHANGED cvars
    /\ UNCHANGED uvars

\* lines 774-775 and 799-809: "Show Video" sets selected_video, the video is
\* shown and selected_video is reset in the same run
ShowVideo(i) ==
    /\ pc = "idle"
    /\ Loaded
    /\ rendered \in {"ok", "video"}
    /\ i \in 1 .. Len(session_state.recent_videos)
    /\ render(session_state) = "ok"
    /\ session_state' = setattr(session_state, "selected_video", NoMedia)
    /\ rendered' = "video"
    /\ UNCHANGED <<listdir, filename, runs>>
    /\ UNCHANGED call_vars
    /\ UNCHANGED cvars
    /\ UNCHANGED uvars

SessionNext ==
    \/ Load
    \/ \E f \in {"sync", "async", "video"} : Generate(f)
    \/ \E w \in BOOLEAN : Finish(w)
    \/ \E i \in 1 .. MaxRuns + 1 : ApplySelected(i)
    \/ \E i \in 1 .. MaxRuns + 1 : ShowVideo(i)
    \/ \E st \in PostStatuses, t \in Texts : SyncPostReturns(st, t, 0)
    \/ \E st \in PostStatuses, t \in Texts : AsyncPostReturns(st, t, 0)
    \/ \E st \in PostStatuses, t \in Texts : VideoPostReturns(st, t, 0)
    \/ SendGet
    \/ \E st \in PollStatuses : AsyncGetReturns(st, 0)
    \/ AsyncSleep
    \/ \E st \in PollStatuses : VideoGetReturns(st, 0)
    \/ VideoSleep
    \/ RequestRaises(0)

SessionSpec == SessionInit /\ [][SessionNext]_vars

----------------------------------------------------------------------------
(* Concurrent calls of send_async_generation_request.  A blocking operation
   of a call (the POST, a GET, a sleep) ends when the shared clock reaches
   its `due` time; the statements between two of them take no time. *)

ConcLatencies == {0, 1}
ConcTimeouts == {0, PollInterval}
ConcTexts == {NoIdText, ShortIdText, LongIdText}
ConcPollStatuses == {200, 202, 500}
ConcMaxClock == 3 * PollInterval + 2 * MaxLatency

ConcInit ==
    /\ CallInit
    /\ WORKER_TIMEOUT \in ConcTimeouts
    /\ in_files = NoFiles
    /\ image = None
    /\ mask = None
    /\ session_state = NoKeys
    /\ listdir = [images |-> <<>>, videos |-> <<>>]
    /\ filename = NoMedia
    /\ rendered = "none"
    /\ runs = 0

Blocked(c) == calls[c].pc \in {"posting", "inflight", "sleep"}

\* Mutant: `start` is one module-level variable, written by the first call.
elapsed_of_Shared(cs, c, t) == t - cs[1].start

\* line 108: time.time() - start, with the call's own local `start`
elapsed_of(cs, c, t) == t - cs[c].start

\* line 89: the call posts its request
CCall(c, latency) ==
    /\ calls[c].pc = "idle"
    /\ calls' = [calls EXCEPT ![c].pc = "posting",
                              ![c].began = clock,
                              ![c].due = clock + latency]
    /\ UNCHANGED clock
    /\ UNCHANGED call_vars
    /\ UNCHANGED svars
    /\ UNCHANGED uvars

\* lines 89-97: the POST has answered
CPostReturns(c, status_code, text) ==
    /\ calls[c].pc = "posting" /\ calls[c].due = clock
    /\ LET r == Response(status_code, text)
           e == AsyncSubmitError(r)
       IN calls' =
            IF e.kind # "none"
            THEN [calls EXCEPT ![c].pc = "failed", ![c].err = e]
            ELSE [calls EXCEPT ![c].pc = "poll",
                               ![c].job = get(json(r), "id", None),
                               ![c].generation_id = get(json(r), "id", None),
                               ![c].timeout = WORKER_TIMEOUT,
                               ![c].start = poll_start(calls[c].began, clock)]
    /\ UNCHANGED clock
    /\ UNCHANGED call_vars
    /\ UNCHANGED svars
    /\ UNCHANGED uvars

\* lines 99-102: the call issues a GET for its job
CSendGet(c, latency) ==
    /\ calls[c].pc = "poll"
    /\ calls' = [calls EXCEPT
                   ![c].pc = "inflight",
                   ![c].gets = @ + 1,
                   ![c].began = clock,
                   ![c].due = clock + latency,
                   ![c].targets =
                       @ \cup {result_url("async", calls[c].generation_id)}]
    /\ UNCHANGED clock
    /\ UNCHANGED call_vars
    /\ UNCHANGED svars
    /\ UNCHANGED uvars

\* lines 103-107: the GET has answered; on 202 the call goes to sleep
CGetReturns(c, status_code) ==
    /\ calls[c].pc = "inflight" /\ calls[c].due = clock
    /\ LET r == Response(status_code, "")
           next == AsyncAfterGet(r)
       IN calls' = [calls EXCEPT
                     ![c].pc = next,
                     ![c].poll_response = r,
                     ![c].get_total = @ + (clock - calls[c].began),
                     ![c].due = IF next = "sleep" THEN clock + PollInterval
                                ELSE @,
                     ![c].err = IF next = "failed" THEN HTTPError(r) ELSE @,
                     ![c].result = IF next = "returned" THEN r ELSE @]
    /\ UNCHANGED clock
    /\ UNCHANGED call_vars
    /\ UNCHANGED svars
    /\ UNCHANGED uvars

\* lines 107-109: the sleep is over, the timeout is checked
CSleepEnds(c) ==
    /\ calls[c].pc = "sleep" /\ calls[c].due = clock
    /\ calls' =
          IF TimedOut(elapsed_of(calls, c, clock), calls[c].timeout)
          THEN [calls EXCEPT ![c].pc = "failed",
                             ![c].sleeps = @ + 1,
                             ![c].err = TimeoutError(calls[c].timeout)]
          ELSE [calls EXCEPT ![c].pc = "poll", ![c].sleeps = @ + 1]
    /\ UNCHANGED clock
    /\ UNCHANGED call_vars
    /\ UNCHANGED svars
    /\ UNCHANGED uvars

\* a second passes while every running call is blocked
CTick ==
    /\ clock < ConcMaxClock
    /\ \E c \in Calls : Blocked(c)
    /\ \A c \in Calls : calls[c].pc # "poll"
    /\ \A c \in Calls : Blocked(c) => calls[c].due > clock
    /\ clock' = clock + 1
    /\ UNCHANGED calls
    /\ UNCHANGED call_vars
    /\ UNCHANGED svars
    /\ UNCHANGED uvars

ConcNext ==
    \/ \E c \in Calls, l \in ConcLatencies : CCall(c, l)
    \/ \E c \in Calls, st \in PostStatuses, t \in ConcTexts :
          CPostReturns(c, st, t)
    \/ \E c \in Calls, l \in ConcLatencies : CSendGet(c, l)
    \/ \E c \in Calls, st \in ConcPollStatuses : CGetReturns(c, st)
    \/ \E c \in Calls : CSleepEnds(c)
    \/ CTick

ConcSpec == ConcInit /\ [][ConcNext]_vars

----------------------------------------------------------------------------
(* The image-editing calls of two sessions.  Each writes the uploaded image
   to a temporary file of the working directory and hands the file's name to
   send_generation_request, which opens it and posts its content. *)

Seeds == {1, 2}
Images == {"a", "b"}
Editors == {"search_and_recolor", "search_and_replace", "control_sketch"}

\* lines 152, 202, 235: the name is a prefix and the seed
temp_name(f, seed) ==
    IF f = "control_sketch" THEN <<"temp_sketch_", seed>>
    ELSE <<"temp_upload_", seed>>

\* open(name, "wb"): the file exists and is empty
truncate(d, name) == (name :> "") @@ d

\* f.write(bytes) on a file just opened for writing
write(d, name, bytes) == (name :> bytes) @@ d

\* open(name, "rb") and the read requests.post makes of it
read(d, name) == d[name]

UploadInit ==
    /\ CallInit
    /\ in_files = NoFiles
    /\ image = None
    /\ mask = None
    /\ session_state = NoKeys
    /\ listdir = [images |-> <<>>, videos |-> <<>>]
    /\ filename = NoMedia
    /\ rendered = "none"
    /\ runs = 0

\* lines 202-203 (152 for the sketch): the function is entered, the name of
\* the temporary file and the uploaded bytes are its locals
Enter(u, f, seed, bytes) ==
    /\ ups[u].pc = "idle"
    /\ ups' = [ups EXCEPT ![u].pc = "open",
                          ![u].fn = f,
                          ![u].seed = seed,
                          ![u].image_bytes = bytes,
                          ![u].temp_filename = temp_name(f, seed)]
    /\ UNCHANGED disk
    /\ UNCHANGED call_vars
    /\ UNCHANGED svars
    /\ UNCHANGED cvars

\* lines 153, 204, 237: with open(temp_filename, "wb") as f
OpenTemp(u) ==
    /\ ups[u].pc = "open"
    /\ disk' = truncate(disk, ups[u].temp_filename)
    /\ ups' = [ups EXCEPT ![u].pc = "write"]
    /\ UNCHANGED call_vars
    /\ UNCHANGED svars
    /\ UNCHANGED cvars

\* lines 154, 205, 238: f.write(image_bytes)
WriteTemp(u) ==
    /\ ups[u].pc = "write"
    /\ disk' = write(disk, ups[u].temp_filename, ups[u].image_bytes)
    /\ ups' = [ups EXCEPT ![u].pc = "send"]
    /\ UNCHANGED call_vars
    /\ UNCHANGED svars
    /\ UNCHANGED cvars

\* lines 54 and 65: files["image"] = open(image, "rb"), then requests.post
\* reads the file
PostTemp(u) ==
    /\ ups[u].pc = "send"
    /\ ups' = [ups EXCEPT ![u].pc = "posted",
                          ![u].posted = read(disk, ups[u].temp_filename)]
    /\ UNCHANGED disk
    /\ UNCHANGED call_vars
    /\ UNCHANGED svars
    /\ UNCHANGED cvars

UploadNext ==
    \/ \E u \in Sessions, f \in Editors, seed \in Seeds, bytes \in Images :
          Enter(u, f, seed, bytes)
    \/ \E u \in Sessions : OpenTemp(u)
    \/ \E u \in Sessions : WriteTemp(u)
    \/ \E u \in Sessions : PostTemp(u)

UploadSpec == UploadInit /\ [][UploadNext]_vars

----------------------------------------------------------------------------
(* The parts send_generation_request and send_async_generation_request post,
   for every combination of arguments *)

FilesInit ==
    /\ CallInit
    /\ in_files \in FilesArgs
    /\ image \in ImageArgs
    /\ mask \in ImageArgs
    /\ session_state = NoKeys
    /\ listdir = [images |-> <<>>, videos |-> <<>>]
    /\ filename = NoMedia
    /\ rendered = "none"
    /\ runs = 0

FilesNext == \E f \in {"sync", "async"} : Call(f)

FilesSpec == FilesInit /\ [][FilesNext]_vars

----------------------------------------------------------------------------
(* Properties *)

Elapsed == now - start
Async == fn = "async"
Polling == pc \in {"poll", "inflight", "sleep"}
PostAnswered == pc \notin {"idle", "posting"} /\ response # NoResponse
TimedOutErr == err.kind = "Timeout"

\* C1 (as stated): when send_async_generation_request gives up on a job that
\* answered 202 to every poll, the elapsed time has passed the timeout and
\* exceeds it by at most one poll interval.
C1_WithinOneInterval ==
    (Async /\ TimedOutErr) =>
        (Elapsed > timeout /\ Elapsed <= timeout + PollInterval)

\* C1 (amended): a GET is issued only while the elapsed time is at most the
\* timeout; a call whose polls all answered 202 fails with the timeout error
\* at the first check after a sleep that finds the elapsed time past the
\* timeout, and the elapsed time then exceeds the timeout by at most one poll
\* interval plus the time the last GET spent in flight.
C1_TimeoutBound ==
    Async =>
        /\ (pc = "poll" => Elapsed <= timeout)
        /\ (pc = "failed" /\ poll_response.status_code = 202
              /\ err.kind # "ConnectionError" => TimedOutErr)
        /\ (TimedOutErr =>
              /\ pc = "failed"
              /\ poll_response.status_code = 202
              /\ Elapsed > timeout
              /\ sent_at - start <= timeout
              /\ Elapsed = (sent_at - start) + flight + PollInterval
              /\ Elapsed <= timeout + PollInterval + flight)

C1_Witness ==
    /\ Async /\ TimedOutErr /\ gets >= 2
    /\ flight > 0
    /\ Elapsed > timeout + PollInterval

\* C2: every polling loop eventually stops, whatever the status endpoint
\* answers: the call reaches an outcome (returned or failed).
C2_EveryLoopStops == <>Terminal

\* C3: a polling loop hands a result back only when the last observed status
\* is exactly 200.
C3_ResultOnlyOn200 ==
    (fn \in {"async", "video"} /\ pc = "returned") =>
        poll_response.status_code = 200

\* C4: a poll answered with a 4xx or 5xx status ends the call with an error
\* at once, and a failed call issues no further GET.
C4_FailedPollIsFinal ==
    [][ /\ (poll_response'.status_code >= 400 =>
              pc' = "failed" /\ err'.kind # "none")
        /\ (pc = "failed" => gets' = gets /\ pc' = "failed") ]_vars

C4_Witness ==
    /\ pc = "failed" /\ poll_response.status_code >= 500
    /\ gets = 2 /\ sleeps = 1
    /\ err.kind \in {"HTTP", "VideoGenerationError"}

\* C5 (as stated): send_async_generation_request returns a 200 response that
\* follows k answers of 202 after k+1 GETs and k sleeps at elapsed time 10*k,
\* and it gives up after g GETs only when 10*g exceeds the timeout.
C5_ReturnsAtTenK ==
    Async =>
        /\ (pc = "returned" /\ poll_response.status_code = 200 =>
              gets = sleeps + 1 /\ Elapsed = PollInterval * sleeps)
        /\ (TimedOutErr => PollInterval * gets > timeout)

\* C5 (amended): send_async_generation_request returns a 200 response that
\* follows k answers of 202 after exactly k+1 GETs and k sleeps, at an
\* elapsed time of 10*k plus the time the k+1 GETs spent in flight, provided
\* the elapsed time found after each sleep is at most the timeout; it gives
\* up only when the elapsed time found after a sleep is past the timeout.
C5_ReturnsAfterKSleeps ==
    Async =>
        /\ (pc = "returned" /\ poll_response.status_code = 200 =>
              /\ result = poll_response
              /\ gets = sleeps + 1
              /\ Elapsed = PollInterval * sleeps + get_total
              /\ sent_at - start <= timeout
              /\ (sleeps = 0 => Elapsed = flight))
        /\ (TimedOutErr =>
              /\ Elapsed > timeout
              /\ gets = sleeps
              /\ Elapsed = PollInterval * sleeps + get_total)

C5_Witness ==
    /\ Async /\ pc = "returned" /\ poll_response.status_code = 200
    /\ timeout = 25 /\ gets = 3 /\ sleeps = 2 /\ Elapsed = 20

\* C6: polling never starts with an empty job identifier.
C6_IdNonEmpty ==
    Polling => (generation_id.type = "str" /\ generation_id.s # "")

\* C7: a POST answered with a non-success status ends the call with an error
\* that carries the status code and the body, and no GET is issued.
C7_RejectionCarriesStatusAndBody ==
    (PostAnswered /\ ~ok(response)) =>
        /\ pc = "failed"
        /\ err.kind = "HTTP"
        /\ err.args = <<response.status_code, response.text>>
        /\ gets = 0

\* C8: when the POST succeeds and its JSON has no "id" field, the call fails
\* with an error and issues no GET.
C8_MissingIdFails ==
    (fn \in {"async", "video"} /\ PostAnswered /\ ok(response)
       /\ ~JsonRaises(response) /\ "id" \notin DOMAIN json(response)) =>
        /\ pc = "failed"
        /\ err.kind \in {"ExpectedId", "NoGenerationId"}
        /\ gets = 0

C8_Witness ==
    /\ Async /\ pc = "failed" /\ response = Response(200, NoIdText)
    /\ err.kind = "ExpectedId"

\* C9: the timeout error of send_async_generation_request carries the
\* elapsed polling duration.
C9_TimeoutCarriesElapsed ==
    (Async /\ TimedOutErr) => err.args = <<Elapsed>>

\* C10: the timeout is checked only after the sleep that follows a 202: a
\* call whose submission succeeded issues at least one GET whatever the
\* timeout, the timeout error is raised only by the step that ends a sleep,
\* with 202 as the last answer, and never while a GET is in flight.
C10_CooperativeTimeout ==
    /\ [](Async /\ Terminal /\ PostAnswered
            /\ AsyncSubmitError(response).kind = "none" => gets >= 1)
    /\ [][ /\ (TimedOutErr' /\ ~TimedOutErr =>
                 /\ pc = "sleep"
                 /\ sleeps' = sleeps + 1
                 /\ gets >= 1
                 /\ poll_response.status_code = 202)
           /\ (pc = "inflight" => ~TimedOutErr') ]_vars

C10_Witness ==
    /\ Async /\ TimedOutErr /\ timeout = 0 /\ gets = 1 /\ sleeps = 1

Gets == {r \in sent : r.method = "GET"}
Outcome ==
    \/ Terminal
    \/ poll_response.status_code = 200
    \/ poll_response.status_code >= 400
    \/ TimedOutErr

\* C11: in both loops a GET is issued only when no GET is in flight; the
\* first GET of a call follows no sleep, every later one follows a 202
\* answer and exactly one sleep of a full interval, and a 202 answer is
\* always followed by the sleep.
C11_OneSleepBetweenGets ==
    [][ /\ (pc' = "inflight" /\ pc # "inflight" =>
              /\ pc = "poll"
              /\ IF gets = 0
                 THEN slept = 0 /\ sleeps = 0
                 ELSE /\ slept = 1
                      /\ poll_response.status_code = 202
                      /\ (now < MaxClock =>
                            now = sent_at + flight + PollInterval))
        /\ (pc = "inflight" /\ pc' \in {"poll", "sleep"} =>
              poll_response'.status_code = 202 /\ pc' = "sleep")
        /\ (pc = "sleep" /\ pc' # "sleep" /\ now < MaxClock - PollInterval =>
              now' = now + PollInterval) ]_vars

C11_Witness ==
    /\ fn = "video" /\ pc = "inflight" /\ gets = 2 /\ sleeps = 1
    /\ now = sent_at /\ poll_response.status_code = 202

\* C12: the clock send_async_generation_request compares with the timeout
\* starts when the POST has answered: the elapsed time is the time spent in
\* the sleeps and the GETs, and excludes the time the POST spent in flight.
C12_ClockStartsAfterPost ==
    (Async /\ (Polling \/ gets >= 1)) =>
        /\ start = post_flight
        /\ Elapsed = now - post_flight
        /\ Elapsed = PollInterval * sleeps + get_total

C12_Witness ==
    /\ Async /\ pc = "returned" /\ post_flight > 0 /\ sleeps = 1
    /\ Elapsed = timeout /\ now > timeout

\* C13: once a polling call has seen a 200 answer, a 4xx/5xx answer or the
\* timeout, or has otherwise ended, it issues no further request, and the
\* only requests a call ever issues are its POST and the GETs of its job.
C13_NoRequestAfterOutcome ==
    /\ [](\A r \in sent : r.method \in {"POST", "GET"})
    /\ [][Outcome => (sent' = sent /\ gets' = gets /\ posts' = posts)]_vars

C13_Witness ==
    /\ fn = "video" /\ pc = "returned" /\ gets = 2
    /\ poll_response.status_code = 200

\* C14: a call issues exactly one POST; a GET is issued only after that POST
\* has answered, and every GET targets the identifier of the POST's answer.
C14_OnePostThenItsGets ==
    /\ (pc # "idle" =>
          /\ posts = 1
          /\ {r \in sent : r.method = "POST"}
                = {Request("POST", <<host(fn), None>>)})
    /\ (pc = "idle" => sent = {})
    /\ (fn = "sync" => Gets = {})
    /\ (gets > 0 <=> Gets # {})
    /\ (Gets # {} =>
          /\ PostAnswered
          /\ ~JsonRaises(response)
          /\ Cardinality({r.url : r \in Gets}) = 1
          /\ \A r \in Gets : r.url[2] = get(json(response), "id", None))

C14_Witness ==
    /\ Async /\ gets = 2
    /\ Request("GET", result_url("async", Str("abc"))) \in sent

\* C17: generate_image_to_video polls only an identifier of exactly 64
\* characters; for an identifier of any other length it reports an error,
\* ends without a result and issues no GET.
C17_VideoIdLength ==
    fn = "video" =>
        /\ (Polling \/ gets > 0 =>
              generation_id.type = "str" /\ len(generation_id) = IdLength)
        /\ (PostAnswered /\ ~JsonRaises(response)
              /\ get(json(response), "id", None).type = "str"
              /\ len(get(json(response), "id", None)) # IdLength =>
              /\ pc = "failed"
              /\ err.kind \in {"IdLength", "NoGenerationId"}
              /\ gets = 0
              /\ result = NoResponse)

C17_Witness ==
    /\ fn = "video" /\ pc = "failed" /\ response.text = ShortIdText
    /\ err = Error("IdLength", <<3>>)

\* C18: one call of send_async_generation_request issues at most
\* floor(timeout / 10) + 1 GETs, whatever the server answers; that is 51 for
\* the default timeout.
C18_GetBound ==
    /\ (Async => gets <= (timeout \div PollInterval) + 1)
    /\ (DefaultTimeout \div PollInterval) + 1 = 51

C18_Witness ==
    /\ Async /\ timeout = 20 /\ gets = 3 /\ flight = 0

Placeholder == <<"none", Str("")>>

\* C15: the parts send_generation_request and send_async_generation_request
\* pass to the POST are never empty; the part "none" with an empty value is
\* sent exactly when the caller supplied no files and params holds no
\* non-empty image or mask, and then it is the only part.
C15_PartsNeverEmpty ==
    (pc = "posting" /\ fn \in {"sync", "async"}) =>
        /\ files # {}
        /\ (Placeholder \in files <=>
              /\ in_files \in {NoFiles, Dict({})}
              /\ image \in {None, Str("")}
              /\ mask \in {None, Str("")})
        /\ (Placeholder \in files => files = {Placeholder})
        /\ (\A p \in in_files.parts :
              p[1] \notin {"image", "mask"} => p \in files)

C15_Witness ==
    /\ pc = "posting" /\ fn = "async" /\ files = {Placeholder}
    /\ in_files = Dict({}) /\ image = Str("") /\ mask = None

recent_key(f) == IF f = "video" THEN "recent_videos" ELSE "recent_images"
generated_key(f) == IF f = "video" THEN "generated_video" ELSE "generated_image"

\* C19: while a generation runs the session state does not change; when it
\* has failed the generate_* function returns None and the run leaves the
\* session state as it was; the run changes it only when a file name came
\* back, and then it sets generated_image (generated_video) to that name and
\* appends the name once to recent_images (recent_videos), nothing else.
C19_SessionChangesOnlyOnFile ==
    [][ /\ (pc # "idle" /\ pc' # "idle" => session_state' = session_state)
        /\ (pc # "idle" /\ pc' = "idle" =>
              /\ (pc = "failed" => filename' = NoMedia)
              /\ (filename' = NoMedia => session_state' = session_state)
              /\ (filename' # NoMedia =>
                    /\ pc = "returned"
                    /\ DOMAIN session_state' =
                          DOMAIN session_state \cup {generated_key(fn)}
                    /\ session_state'[generated_key(fn)] = filename'
                    /\ session_state'[recent_key(fn)] =
                          Append(session_state[recent_key(fn)], filename')
                    /\ \A i \in 1 .. Len(session_state[recent_key(fn)]) :
                          session_state[recent_key(fn)][i] # filename'
                    /\ \A k \in DOMAIN session_state \
                              {generated_key(fn), recent_key(fn)} :
                          session_state'[k] = session_state[k])) ]_vars

C19_Witness ==
    /\ pc = "idle" /\ runs = 2 /\ filename = NoMedia
    /\ listdir.images = <<Media("image", 1)>>
    /\ session_state.recent_images = <<Media("image", 1)>>
    /\ session_state.generated_image = Media("image", 1)

\* C20: whenever the recent-videos list is not empty, generated_image is
\* set, so that no run of the page ends in the AttributeError of line 772.
C20_RecentVideosRender ==
    /\ rendered # "AttributeError"
    /\ (Loaded /\ session_state.recent_videos # <<>> =>
          "generated_image" \in DOMAIN session_state)

\* The time a call run alone has measured after its sleeps: its own sleeps
\* and the latencies of its own GETs.
OwnElapsed(k) == PollInterval * k.sleeps + k.get_total

\* C16: concurrent calls are independent.  A step of one call leaves the
\* other call's locals alone; every GET of a call asks for the id of its
\* own POST's answer; what a call does after a GET depends on that GET's
\* answer only; and at each timeout check the call has measured exactly its
\* own sleeps and GET latencies, so it times out exactly when it would alone.
C16_CallsIndependent ==
    [][ \A c \in Calls :
          LET k == calls[c]
              n == calls'[c]
          IN  /\ (n # k => \A d \in Calls \ {c} : calls'[d] = calls[d])
              /\ n.targets \subseteq {result_url("async", n.job)}
              /\ (k.pc = "posting" /\ n.pc = "poll" => n.start = clock)
              /\ (k.pc = "inflight" /\ n.pc # "inflight" =>
                    /\ n.pc = AsyncAfterGet(n.poll_response)
                    /\ (n.pc = "failed" => n.err = HTTPError(n.poll_response))
                    /\ (n.pc = "returned" => n.result = n.poll_response))
              /\ (k.pc = "sleep" /\ n.pc # "sleep" =>
                    /\ clock - k.start = OwnElapsed(n)
                    /\ (n.pc = "failed" <=> TimedOut(OwnElapsed(n), k.timeout))
                    /\ (n.pc = "failed" => n.err = TimeoutError(k.timeout))
                    /\ (n.pc # "failed" => n.pc = "poll")) ]_vars

C16_Witness ==
    /\ calls[1].pc = "returned" /\ calls[2].pc = "failed"
    /\ calls[2].err = TimeoutError(calls[2].timeout)
    /\ calls[1].job # calls[2].job
    /\ calls[1].start < calls[2].start
    /\ calls[2].start < calls[1].start + PollInterval
    /\ calls[1].sleeps >= 1 /\ calls[2].sleeps >= 1

\* C21: the image bytes a call posts are the bytes of the image supplied to
\* that call, whatever the other session does and whatever the seeds are.
C21_PostsOwnImage ==
    \A u \in Sessions :
        ups[u].pc = "posted" => ups[u].posted = ups[u].image_bytes
====
